---- MODULE Spec2Model ----
(***************************************************************************)
(* Parkour Recorder (src/parkour.py) with its camera worker                *)
(* (src/parkour_video_viewer.py, WebcamVideoThread).                       *)
(*                                                                         *)
(* The UI context handles one event at a time (Start click, key press,     *)
(* queued frame, one-second timer); the worker thread opens the camera,    *)
(* reads frames and queues them for the UI context.  A Python attribute    *)
(* that may be None is modelled as <<>> (None) or <<v>> (a value).         *)
(***************************************************************************)
EXTENDS Integers, Sequences, FiniteSets, TLC

\* ------------------------------------------------------------------ bounds
MaxClock == 6      \* reads of the wall clock by the UI handlers
MaxFrames == 2     \* successful reads of the camera
MaxN == 2          \* largest repeat count "N" of expt_params.json
\* the preview is followed over PreviewFrames frames and over PreviewClock
\* inputs of the operator that read the clock
PreviewFrames == 10
PreviewClock == 3
ViewerFrames == 2  \* successful reads of the camera by the viewer's worker
SessionPresses == 10  \* Enter presses of a session driven by Enter alone
ViewerSets == 2    \* assignments to the viewer's filename by a test harness
GenRows == 2       \* data lines of tasks.csv after its two header lines

\* --------------------------------------------------------------- constants
KeyEnter == 16777220
KeyR == 82
Keys == {KeyEnter, KeyR}
KeyLowerR == 114
ViewerKeys == {KeyR, KeyLowerR, KeyEnter}

NoModifier == "NoModifier"
ControlModifier == "ControlModifier"
Modifiers == {NoModifier, ControlModifier}

None == <<>>
Some(v) == <<v>>
Val(o) == o[1]

\* class ParkourRecorderStates
WaitingToStart == "WaitingToStart"
WaitingToRecordTask == "WaitingToRecordTask"
RecordingTask == "RecordingTask"
WaitingForAllDone == "WaitingForAllDone"
AllDone == "AllDone"

\* a task of expt_params.json: [name, [step, todo]]
Task(n) == [name |-> n, instr |-> <<"step " \o n, "todo " \o n>>]

\* the task lists expt_params.json may hold
ConfiguredTasks == { <<>>, <<Task("A")>>, <<Task("A"), Task("B")>> }

VARIABLES
    params,        \* self.expt.params: the loaded expt_params.json
    state,         \* self._state
    expt,          \* self.expt: the session
    vids,          \* the cv2.VideoWriter objects created so far
    vidts,         \* the .vidt file objects created so far
    details,       \* experiment_details.json on disk
    imgdispcount,  \* self.imgdispcount
    lbl_img,       \* the pixmap last set on self.lbl_img
    cap,           \* camthread._cap
    imgtime,       \* camthread.imgtime
    queue,         \* frames emitted by the worker, not yet delivered
    nread,         \* frames the camera has delivered to the worker
    clock,         \* the wall clock read by the UI handlers
    raised,        \* the exception that left a handler, if any
    ev,            \* the operator's last input (Start click or key press)
    pixmaps,       \* every pixmap set on self.lbl_img so far, in order
    presses,       \* Enter presses, counted where a session is driven by
                   \* Enter alone (a history variable)
    viewer,        \* the standalone ParkourVideoViewer and its files
    thread,        \* the viewer's WebcamVideoThread
    gen            \* expt_file_generator.py: its input, position and output

vars == <<params, state, expt, vids, vidts, details, imgdispcount, lbl_img,
          cap, imgtime, queue, nread, clock, raised, ev, pixmaps, presses,
          viewer, thread, gen>>

\* the other programs of the repository, which the recorder does not touch
others == <<viewer, thread, gen>>

\* the recorder, which the other programs do not touch
recorder == <<params, state, expt, vids, vidts, details, imgdispcount,
              lbl_img, cap, imgtime, queue, nread, clock, raised, ev, pixmaps,
              presses>>

\* ---------------------------------------------------------- pure helpers

\* Repeat with the repeat count forgotten
RepeatOnce(l, n) == l

\* Python list * int
RECURSIVE Repeat(_, _)
Repeat(l, n) == IF n <= 0 THEN <<>> ELSE l \o Repeat(l, n - 1)

\* Python list indexing l[i]: negative indices count from the end
IndexOk(l, i) == i >= -Len(l) /\ i < Len(l)
Index(l, i) == IF i >= 0 THEN l[i + 1] ELSE l[Len(l) + i + 1]

\* the session as _create_expt_vars leaves it
NewExpt ==
    [ subject |-> None, basefname |-> None, vidwriter |-> None,
      vidtfhndl |-> None, starttime |-> None, tasks |-> None,
      currtaskindx |-> None, currtaskstrt |-> None, currtaskstpt |-> None,
      datafiles |-> None, recording |-> FALSE ]

\* What a handler works on: the session, the writer and file objects, the
\* manifest on disk, the state, and the exception raised so far ("" while
\* none is).
World == [state |-> state, expt |-> expt, vids |-> vids, vidts |-> vidts,
          details |-> details, exc |-> ""]

Release(objs, h) == [objs EXCEPT ![h].open = FALSE]

\* img_sz(): None until the worker has opened the device
img_sz == IF cap # None THEN Some(<<1280, 720>>) ELSE None

\* _save_experiment_details
SaveExperimentDetails(w) ==
    [w EXCEPT !.details = Some([subject |-> w.expt.subject,
                                tasks |-> w.expt.tasks,
                                datafiles |-> w.expt.datafiles])]

\* _stop_logging
StopLogging(w) ==
    IF w.expt.recording
    THEN [w EXCEPT !.vids = Release(w.vids, Val(w.expt.vidwriter)),
                   !.vidts = Release(w.vidts, Val(w.expt.vidtfhndl)),
                   !.expt.basefname = None]
    ELSE w

\* the first part of _start_logging: close the existing file
CloseExisting(w) ==
    IF w.expt.recording
    THEN [w EXCEPT !.vids = Release(w.vids, Val(w.expt.vidwriter)),
                   !.vidts = Release(w.vidts, Val(w.expt.vidtfhndl)),
                   !.expt.recording = FALSE,
                   !.expt.basefname = None]
    ELSE w

\* the base file names of _start_logging
TaskBase(i, ct) == [prefix |-> params.taskprefix, indx |-> Some(i), ct |-> ct]
NonTaskBase(ct) == [prefix |-> params.nontaskprefix, indx |-> None, ct |-> ct]

\* the second part of _start_logging: name the segment and list it
NameSegment(w, task, ct) ==
    IF task
    THEN IF w.expt.currtaskindx = None
         THEN [w EXCEPT !.exc = "TypeError"]
         ELSE LET i == Val(w.expt.currtaskindx)
                  n == [w EXCEPT !.expt.basefname = Some(TaskBase(i, ct))]
              IN IF w.expt.tasks = None
                 THEN [n EXCEPT !.exc = "TypeError"]
                 ELSE IF ~IndexOk(Val(w.expt.tasks), i)
                 THEN [n EXCEPT !.exc = "IndexError"]
                 ELSE [n EXCEPT !.expt.datafiles =
                         Some(Val(w.expt.datafiles) \o
                              << <<TaskBase(i, ct),
                                   Index(Val(w.expt.tasks), i).name>> >>)]
    ELSE [w EXCEPT !.expt.basefname = Some(NonTaskBase(ct)),
                   !.expt.datafiles =
                      Some(Val(w.expt.datafiles) \o
                           << <<NonTaskBase(ct), "">> >>)]

\* CreateWriters with the manifest left as it was
CreateWritersUnsaved(w) ==
    IF img_sz = None
    THEN [w EXCEPT !.exc = "TypeError"]
    ELSE [w EXCEPT !.vids = Append(w.vids, [base |-> Val(w.expt.basefname),
                                            open |-> TRUE, frames |-> <<>>]),
                   !.expt.vidwriter = Some(Len(w.vids) + 1),
                   !.vidts = Append(w.vidts, [base |-> Val(w.expt.basefname),
                                              open |-> TRUE, stamps |-> <<>>]),
                   !.expt.vidtfhndl = Some(Len(w.vidts) + 1)]

\* the third part of _start_logging: create the writers, save the manifest
CreateWriters(w) ==
    IF img_sz = None
    THEN [w EXCEPT !.exc = "TypeError"]
    ELSE SaveExperimentDetails(
           [w EXCEPT !.vids = Append(w.vids, [base |-> Val(w.expt.basefname),
                                              open |-> TRUE, frames |-> <<>>]),
                     !.expt.vidwriter = Some(Len(w.vids) + 1),
                     !.vidts = Append(w.vidts, [base |-> Val(w.expt.basefname),
                                                open |-> TRUE, stamps |-> <<>>]),
                     !.expt.vidtfhndl = Some(Len(w.vidts) + 1)])

\* _start_logging
StartLogging(w, task, ct) ==
    LET n == NameSegment(CloseExisting(w), task, ct)
    IN IF n.exc # "" THEN n ELSE CreateWriters(n)

\* _set_current_task that steps over a task
SetCurrentTaskSkipping(w, init) ==
    IF ~init /\ w.expt.currtaskindx = None
    THEN [w |-> [w EXCEPT !.exc = "TypeError"], ret |-> FALSE]
    ELSE LET i == IF init THEN 0 ELSE Val(w.expt.currtaskindx) + 2
             n == [w EXCEPT !.expt.currtaskindx = Some(i)]
         IN IF i >= Len(Val(w.expt.tasks))
            THEN [w |-> n, ret |-> FALSE]
            ELSE [w |-> [n EXCEPT !.expt.currtaskstrt = None,
                                  !.expt.currtaskstpt = None,
                                  !.expt.recording = FALSE],
                  ret |-> TRUE]

\* _set_current_task: the session after it, and what it returns
SetCurrentTask(w, init) ==
    IF ~init /\ w.expt.currtaskindx = None
    THEN [w |-> [w EXCEPT !.exc = "TypeError"], ret |-> FALSE]
    ELSE LET i == IF init THEN 0 ELSE Val(w.expt.currtaskindx) + 1
             n == [w EXCEPT !.expt.currtaskindx = Some(i)]
         IN IF i >= Len(Val(w.expt.tasks))
            THEN [w |-> n, ret |-> FALSE]
            ELSE [w |-> [n EXCEPT !.expt.currtaskstrt = None,
                                  !.expt.currtaskstpt = None,
                                  !.expt.recording = FALSE],
                  ret |-> TRUE]

\* _prepare_for_the_next_task: _set_current_task, then the instructions panel
\* reads tasks[currtaskindx]
PrepareForTheNextTask(w, init) ==
    LET r == SetCurrentTask(w, init)
    IN IF r.w.exc # "" \/ ~r.ret THEN r
       ELSE IF ~IndexOk(Val(r.w.expt.tasks), Val(r.w.expt.currtaskindx))
       THEN [w |-> [r.w EXCEPT !.exc = "IndexError"], ret |-> FALSE]
       ELSE r

\* _redo_task stepping back by one before the advance, not by two
RedoTaskByOne(w) ==
    IF w.expt.currtaskindx = None
    THEN [w EXCEPT !.exc = "TypeError"]
    ELSE IF Val(w.expt.currtaskindx) > 0
    THEN PrepareForTheNextTask(
           [w EXCEPT !.expt.currtaskindx = Some(Val(w.expt.currtaskindx) - 1)],
           FALSE).w
    ELSE w

\* _redo_task
RedoTask(w) ==
    IF w.expt.currtaskindx = None
    THEN [w EXCEPT !.exc = "TypeError"]
    ELSE IF Val(w.expt.currtaskindx) > 0
    THEN PrepareForTheNextTask(
           [w EXCEPT !.expt.currtaskindx = Some(Val(w.expt.currtaskindx) - 2)],
           FALSE).w
    ELSE w

\* _start_expt
StartExpt(w, name, now) ==
    [w EXCEPT !.expt.starttime = Some(now),
              !.expt.subject = Some(<<name, now>>),
              !.expt.tasks = Some(Repeat(params.tasks, params.N)),
              !.expt.datafiles = Some(<<>>),
              !.expt.recording = FALSE]

\* EnterStop that does not look at what _prepare_for_the_next_task returns
EnterStopIgnoringEnd(w, now) ==
    LET s == [StopLogging([w EXCEPT !.expt.currtaskstpt = Some(now)])
                EXCEPT !.expt.recording = FALSE]
        r == PrepareForTheNextTask(s, FALSE)
        t == [r.w EXCEPT !.state = WaitingToRecordTask]
    IN IF r.w.exc # "" THEN r.w ELSE StartLogging(t, FALSE, now)

\* keyPressEvent, Enter without Ctrl, while a task is being recorded
EnterStop(w, now) ==
    LET s == [StopLogging([w EXCEPT !.expt.currtaskstpt = Some(now)])
                EXCEPT !.expt.recording = FALSE]
        r == PrepareForTheNextTask(s, FALSE)
        t == [r.w EXCEPT !.state = IF r.ret THEN WaitingToRecordTask
                                   ELSE WaitingForAllDone]
    IN IF r.w.exc # "" THEN r.w ELSE StartLogging(t, FALSE, now)

\* EnterStart that never leaves WaitingForAllDone
EnterStartNeverDone(w, now) ==
    IF w.state # WaitingForAllDone
    THEN LET l == StartLogging([w EXCEPT !.expt.currtaskstrt = Some(now),
                                         !.expt.currtaskstpt = None],
                               TRUE, now)
         IN IF l.exc # "" THEN l
            ELSE [l EXCEPT !.expt.recording = TRUE, !.state = RecordingTask]
    ELSE StopLogging(w)

\* keyPressEvent, Enter without Ctrl, while no task is being recorded
EnterStart(w, now) ==
    IF w.state # WaitingForAllDone
    THEN LET l == StartLogging([w EXCEPT !.expt.currtaskstrt = Some(now),
                                         !.expt.currtaskstpt = None],
                               TRUE, now)
         IN IF l.exc # "" THEN l
            ELSE [l EXCEPT !.expt.recording = TRUE, !.state = RecordingTask]
    ELSE [StopLogging(w) EXCEPT !.state = AllDone]

\* keyPressEvent without the early return of WaitingToStart
KeyPressEventUngated(w, key, modifiers, now) ==
    IF key = KeyEnter /\ modifiers # ControlModifier
    THEN IF w.expt.recording THEN EnterStop(w, now) ELSE EnterStart(w, now)
    ELSE IF key = KeyR /\ modifiers = ControlModifier
    THEN LET r == RedoTask(w)
         IN IF r.exc # "" THEN r ELSE [r EXCEPT !.state = WaitingToRecordTask]
    ELSE w

\* keyPressEvent
KeyPressEvent(w, key, modifiers, now) ==
    IF w.state = WaitingToStart THEN w
    ELSE IF key = KeyEnter /\ modifiers # ControlModifier
    THEN IF w.expt.recording THEN EnterStop(w, now) ELSE EnterStart(w, now)
    ELSE IF key = KeyR /\ modifiers = ControlModifier
    THEN LET r == RedoTask(w)
         IN IF r.exc # "" THEN r ELSE [r EXCEPT !.state = WaitingToRecordTask]
    ELSE w

\* _callback_start_stop_expt
CallbackStartStopExpt(w, name, confirmed, now) ==
    IF ~confirmed THEN w
    ELSE LET l == StartLogging(StartExpt(w, name, now), FALSE, now)
             p == PrepareForTheNextTask([l EXCEPT !.state = WaitingToRecordTask],
                                        TRUE)
         IN IF l.exc # "" THEN l
            ELSE IF p.w.exc # "" \/ p.ret THEN p.w
            ELSE [p.w EXCEPT !.state = WaitingForAllDone]

\* cv2.VideoWriter.write: a released writer drops the frame
WriteFrame(objs, h, frame) ==
    IF objs[h].open THEN [objs EXCEPT ![h].frames = Append(@, frame)] ELSE objs

\* LogFrame with the timestamp record left out
LogFrameNoStamp(w, frame) ==
    IF w.expt.basefname = None THEN w
    ELSE IF w.expt.vidwriter = None THEN [w EXCEPT !.exc = "AttributeError"]
    ELSE [w EXCEPT !.vids = WriteFrame(w.vids, Val(w.expt.vidwriter), frame)]

\* _sig_cb_update_image, the logging part: the frame goes to the video
\* writer, and camthread.imgtime as it is now to the timestamp file
LogFrame(w, frame) ==
    IF w.expt.basefname = None THEN w
    ELSE IF w.expt.vidwriter = None THEN [w EXCEPT !.exc = "AttributeError"]
    ELSE LET v == [w EXCEPT !.vids = WriteFrame(w.vids, Val(w.expt.vidwriter),
                                                 frame)]
         IN IF ~w.vidts[Val(w.expt.vidtfhndl)].open
            THEN [v EXCEPT !.exc = "ValueError"]
            ELSE [v EXCEPT !.vidts[Val(w.expt.vidtfhndl)].stamps =
                              Append(@, Val(imgtime))]

\* _callback_app_timer: the status line reads tasks[currtaskindx]
CallbackAppTimer(w) ==
    IF /\ w.state \in {WaitingToRecordTask, RecordingTask}
       /\ ~IndexOk(Val(w.expt.tasks), Val(w.expt.currtaskindx))
    THEN [w EXCEPT !.exc = "IndexError"]
    ELSE w

\* ----------------------------------------------------------------- events

\* the standalone viewer, its worker and the generator while they do not run
NoViewer == [ui |-> "off"]
NoThread == [pc |-> "off"]
NoGen == [pc |-> "off"]

\* some open writer or file object is no longer referred to by the session
Unreferenced ==
    \/ \E h \in DOMAIN vids : vids[h].open /\ expt.vidwriter # Some(h)
    \/ \E h \in DOMAIN vidts : vidts[h].open /\ expt.vidtfhndl # Some(h)

\* an input of the operator, with the state and the task index it met
Event(kind, key, modifiers, confirmed) ==
    [kind |-> kind, key |-> key, modifiers |-> modifiers, confirmed |-> confirmed,
     from |-> state, indx |-> expt.currtaskindx]

\* what a handler leaves behind; an exception that leaves a handler ends the
\* process (PyQt5 aborts on an unhandled exception in a Python handler)
Commit(w, e) ==
    /\ state' = w.state
    /\ expt' = w.expt
    /\ vids' = w.vids
    /\ vidts' = w.vidts
    /\ details' = w.details
    /\ raised' = w.exc
    /\ ev' = e

\* dt.now() is read by keyPressEvent on Enter, unless it only closes the
\* session's last segment
ReadsClock(key, modifiers) ==
    /\ state # WaitingToStart
    /\ key = KeyEnter /\ modifiers # ControlModifier
    /\ expt.recording \/ state # WaitingForAllDone

Init ==
    /\ params \in [tasks : ConfiguredTasks, N : 1..MaxN,
                   taskprefix : {"task"}, nontaskprefix : {"unlabelled"}]
    /\ state = WaitingToStart
    /\ expt = NewExpt
    /\ vids = <<>>
    /\ vidts = <<>>
    /\ details = None
    /\ imgdispcount = 0
    /\ lbl_img = None
    /\ cap = None
    /\ imgtime = None
    /\ queue = <<>>
    /\ nread = 0
    /\ clock = 0
    /\ raised = ""
    /\ ev = [kind |-> "init", key |-> 0, modifiers |-> "", confirmed |-> FALSE,
             from |-> WaitingToStart, indx |-> None]
    /\ pixmaps = <<>>
    /\ presses = 0
    /\ viewer = NoViewer
    /\ thread = NoThread
    /\ gen = NoGen

\* the operator clicks Start (enabled in WaitingToStart only) and answers
\* the confirmation dialog
StartClick(confirmed) ==
    /\ raised = ""
    /\ ~Unreferenced
    /\ state = WaitingToStart
    /\ clock < MaxClock
    /\ Commit(CallbackStartStopExpt(World, "subj", confirmed, clock),
              Event("start", 0, "", confirmed))
    /\ clock' = IF confirmed THEN clock + 1 ELSE clock
    /\ UNCHANGED <<params, imgdispcount, lbl_img, cap, imgtime, queue, nread>>
    /\ UNCHANGED <<pixmaps, presses, others>>

\* the operator presses a key, while the clock has been read less than
\* maxclock times
KeyPressWithin(key, modifiers, maxclock) ==
    /\ raised = ""
    /\ ~Unreferenced
    /\ clock < maxclock
    /\ Commit(KeyPressEvent(World, key, modifiers, clock),
              Event("key", key, modifiers, FALSE))
    /\ clock' = IF ReadsClock(key, modifiers) THEN clock + 1 ELSE clock
    /\ UNCHANGED <<params, imgdispcount, lbl_img, cap, imgtime, queue, nread>>
    /\ UNCHANGED <<pixmaps, others>>

KeyPress(key, modifiers) ==
    /\ KeyPressWithin(key, modifiers, MaxClock)
    /\ UNCHANGED presses

\* a display counter that wraps at three
NextDispCountOfThree(c) == (c + 1) % 3

\* _sig_cb_update_image, the display part: imgdispcount += 1; %= 2
NextDispCount(c) == (c + 1) % 2

\* the UI context takes the next queued frame: _sig_cb_update_image
FrameEvent ==
    /\ raised = ""
    /\ ~Unreferenced
    /\ queue # <<>>
    /\ LET w == LogFrame(World, Head(queue))
           c == NextDispCount(imgdispcount)
       IN /\ Commit(w, ev)
          /\ IF w.exc # ""
             THEN UNCHANGED <<imgdispcount, lbl_img, pixmaps>>
             ELSE /\ imgdispcount' = c
                  /\ lbl_img' = IF c = 0
                                THEN Some([frame |-> Head(queue),
                                           rgb |-> expt.recording])
                                ELSE lbl_img
                  /\ pixmaps' = IF c = 0
                                THEN Append(pixmaps,
                                            [frame |-> Head(queue),
                                             rgb |-> expt.recording])
                                ELSE pixmaps
    /\ queue' = Tail(queue)
    /\ UNCHANGED <<params, cap, imgtime, nread, clock>>
    /\ UNCHANGED <<presses, others>>

\* the one-second timer fires
TimerEvent ==
    /\ raised = ""
    /\ ~Unreferenced
    /\ Commit(CallbackAppTimer(World), ev)
    /\ UNCHANGED <<params, imgdispcount, lbl_img, cap, imgtime, queue, nread,
                   clock>>
    /\ UNCHANGED <<pixmaps, presses, others>>

\* WebcamVideoThread.run: the worker opens the device
WorkerOpen ==
    /\ raised = ""
    /\ cap = None
    /\ cap' = Some("VideoCapture")
    /\ UNCHANGED <<params, state, expt, vids, vidts, details, imgdispcount,
                   lbl_img, imgtime, queue, nread, clock, raised, ev>>
    /\ UNCHANGED <<pixmaps, presses, others>>

\* WebcamVideoThread.run: one turn of the loop; a frame read is stamped and
\* emitted, a failed read is skipped; at most maxframes frames are read
ReadFrame(ret, maxframes) ==
    /\ raised = ""
    /\ cap # None
    /\ nread < maxframes
    /\ IF ret
       THEN /\ nread' = nread + 1
            /\ imgtime' = Some(nread + 1)
            /\ queue' = Append(queue, nread + 1)
       ELSE UNCHANGED <<nread, imgtime, queue>>
    /\ UNCHANGED <<params, state, expt, vids, vidts, details, imgdispcount,
                   lbl_img, cap, clock, raised, ev>>
    /\ UNCHANGED <<pixmaps, presses, others>>

WorkerRead(ret) == ReadFrame(ret, MaxFrames)

\* CPython reclaims a writer or a file object as soon as the session's
\* reference to it is overwritten, which releases or closes it: after the new
\* object exists and before the handler returns
Finalize ==
    /\ raised = ""
    /\ Unreferenced
    /\ vids' = [h \in DOMAIN vids |->
                  [vids[h] EXCEPT !.open = @ /\ expt.vidwriter = Some(h)]]
    /\ vidts' = [h \in DOMAIN vidts |->
                  [vidts[h] EXCEPT !.open = @ /\ expt.vidtfhndl = Some(h)]]
    /\ UNCHANGED <<params, state, expt, details, imgdispcount, lbl_img, cap,
                   imgtime, queue, nread, clock, raised, ev>>
    /\ UNCHANGED <<pixmaps, presses, others>>

Next ==
    \/ \E confirmed \in BOOLEAN : StartClick(confirmed)
    \/ \E key \in Keys, modifiers \in Modifiers : KeyPress(key, modifiers)
    \/ FrameEvent
    \/ TimerEvent
    \/ WorkerOpen
    \/ \E ret \in BOOLEAN : WorkerRead(ret)
    \/ Finalize

Spec == Init /\ [][Next]_vars

\* ------------------------------------------------- the preview, at length

\* one configured task, run once
InitPreview ==
    /\ Init
    /\ params.tasks = <<Task("A")>>
    /\ params.N = 1

PreviewStart == clock < PreviewClock /\ StartClick(TRUE)

PreviewKey(key, modifiers) == clock < PreviewClock /\ KeyPress(key, modifiers)

\* the worker reads the next frame once the UI context has taken the last:
\* here the UI context keeps up with the camera
PreviewRead(ret) == queue = <<>> /\ ReadFrame(ret, PreviewFrames)

NextPreview ==
    \/ PreviewStart
    \/ \E key \in Keys, modifiers \in Modifiers : PreviewKey(key, modifiers)
    \/ FrameEvent
    \/ WorkerOpen
    \/ \E ret \in BOOLEAN : PreviewRead(ret)
    \/ Finalize

SpecPreview == InitPreview /\ [][NextPreview]_vars

\* --------------------------------------- a session driven by Enter alone

\* the operator presses Enter after Start, and the press is counted
SessionEnter ==
    /\ state # WaitingToStart
    /\ presses < SessionPresses
    /\ KeyPressWithin(KeyEnter, NoModifier, SessionPresses + 2)
    /\ presses' = presses + 1

NextSession ==
    \/ StartClick(TRUE)
    \/ SessionEnter
    \/ FrameEvent
    \/ WorkerOpen
    \/ \E ret \in BOOLEAN : WorkerRead(ret)
    \/ Finalize

SpecSession == Init /\ [][NextSession]_vars

\* ------------------------------------------------- the standalone viewer

\* the recorder while it does not run
RecorderOff ==
    /\ params = [tasks |-> <<>>, N |-> 1, taskprefix |-> "task",
                 nontaskprefix |-> "unlabelled"]
    /\ state = WaitingToStart
    /\ expt = NewExpt
    /\ vids = <<>> /\ vidts = <<>> /\ details = None
    /\ imgdispcount = 0 /\ lbl_img = None /\ pixmaps = <<>>
    /\ cap = None /\ imgtime = None /\ queue = <<>> /\ nread = 0
    /\ clock = 0 /\ raised = "" /\ presses = 0
    /\ ev = [kind |-> "init", key |-> 0, modifiers |-> "", confirmed |-> FALSE,
             from |-> WaitingToStart, indx |-> None]

\* ParkourVideoViewer.__init__: no file name, no writer, no file; "ui" is
\* where the UI context is (in the event loop, inside thread.stop(), past
\* closeEvent, or out of the event loop), "queue" holds the frames emitted
\* to the widget and not yet handled, "last" the last event handled
NewViewer ==
    [ ui |-> "running", filename |-> None, video |-> None, fhandle |-> None,
      videos |-> <<>>, fhandles |-> <<>>, queue |-> <<>>, lbl_img |-> None,
      last |-> "init", nset |-> 0 ]

\* WebcamVideoThread.__init__ followed by start()
NewThread ==
    [ pc |-> "open", run_flag |-> TRUE, cap |-> None, imgtime |-> None,
      nread |-> 0 ]

\* the filename setter without its test for a changed value
SetFilenameAlways(v, value) ==
    LET c == IF v.filename # None
             THEN [v EXCEPT !.videos[Val(v.video)].open = FALSE,
                            !.fhandles[Val(v.fhandle)].open = FALSE]
             ELSE v
        n == [c EXCEPT !.filename = value]
    IN IF value # None
       THEN [n EXCEPT !.videos = Append(@, [name |-> Val(value),
                                            open |-> TRUE, frames |-> <<>>]),
                      !.video = Some(Len(c.videos) + 1),
                      !.fhandles = Append(@, [name |-> Val(value),
                                              open |-> TRUE, stamps |-> <<>>]),
                      !.fhandle = Some(Len(c.fhandles) + 1)]
       ELSE n

\* the filename setter
SetFilename(v, value) ==
    IF v.filename = value THEN v
    ELSE LET c == IF v.filename # None
                  THEN [v EXCEPT !.videos[Val(v.video)].open = FALSE,
                                 !.fhandles[Val(v.fhandle)].open = FALSE]
                  ELSE v
             n == [c EXCEPT !.filename = value]
         IN IF value # None
            THEN [n EXCEPT !.videos = Append(@, [name |-> Val(value),
                                                 open |-> TRUE,
                                                 frames |-> <<>>]),
                           !.video = Some(Len(c.videos) + 1),
                           !.fhandles = Append(@, [name |-> Val(value),
                                                   open |-> TRUE,
                                                   stamps |-> <<>>]),
                           !.fhandle = Some(Len(c.fhandles) + 1)]
            ELSE n

\* ParkourVideoViewer.keyPressEvent
ViewerKeyPressEvent(v, key) ==
    IF key = KeyR \/ key = KeyLowerR THEN SetFilename(v, Some("test")) ELSE v

\* ParkourVideoViewer._sig_cb_update_image: the frame is shown, and written
\* with the time of the call when a file name is set
ViewerUpdateImage(v, frame) ==
    LET d == [v EXCEPT !.lbl_img = Some(frame)]
    IN IF v.filename # None
       THEN [d EXCEPT !.videos = WriteFrame(@, Val(v.video), frame),
                      !.fhandles[Val(v.fhandle)].stamps = Append(@, "now")]
       ELSE d

InitViewer ==
    /\ RecorderOff
    /\ viewer = NewViewer
    /\ thread = NewThread
    /\ gen = NoGen

\* the operator presses a key in the viewer's window
ViewerKey(key) ==
    /\ viewer.ui = "running"
    /\ viewer' = [ViewerKeyPressEvent(viewer, key) EXCEPT !.last = "key"]
    /\ UNCHANGED <<recorder, thread, gen>>

\* the UI context, back in its event loop, handles the next queued frame
ViewerFrameEvent ==
    /\ viewer.ui \in {"running", "closed"}
    /\ viewer.queue # <<>>
    /\ viewer' = [ViewerUpdateImage(viewer, Head(viewer.queue))
                    EXCEPT !.queue = Tail(@), !.last = "frame"]
    /\ UNCHANGED <<recorder, thread, gen>>

\* closeEvent that leaves the file name as it is
CloseClearNothing(v) == v

\* closeEvent, its first statement: self.filename = None
CloseClear(v) == SetFilename(v, None)

\* closeEvent begins: the file name is cleared, which finalizes an open pair
CloseBegin ==
    /\ viewer.ui = "running"
    /\ viewer' = [CloseClear(viewer) EXCEPT !.ui = "closing",
                                            !.last = "close"]
    /\ UNCHANGED <<recorder, thread, gen>>

\* closeEvent goes on with thread.stop() up to its wait(): the run flag is
\* lowered and the UI context blocks
CloseStop ==
    /\ viewer.ui = "closing"
    /\ viewer' = [viewer EXCEPT !.ui = "stopping"]
    /\ thread' = [thread EXCEPT !.run_flag = FALSE]
    /\ UNCHANGED <<recorder, gen>>

\* wait() returns once run() has returned; stop and closeEvent return
CloseEnd ==
    /\ viewer.ui = "stopping"
    /\ thread.pc = "finished"
    /\ viewer' = [viewer EXCEPT !.ui = "closed"]
    /\ UNCHANGED <<recorder, thread, gen>>

\* the event loop ends after the window has closed
AppQuit ==
    /\ viewer.ui = "closed"
    /\ viewer' = [viewer EXCEPT !.ui = "exited"]
    /\ UNCHANGED <<recorder, thread, gen>>

\* WebcamVideoThread.run: the device is opened
ThreadOpen ==
    /\ thread.pc = "open"
    /\ thread' = [thread EXCEPT !.cap = Some("open"), !.pc = "test"]
    /\ UNCHANGED <<recorder, viewer, gen>>

\* a loop that goes on whatever the run flag is
ThreadTestIgnoringFlag ==
    /\ thread.pc = "test"
    /\ thread' = [thread EXCEPT !.pc = "read"]
    /\ UNCHANGED <<recorder, viewer, gen>>

\* WebcamVideoThread.run: the loop tests the run flag
ThreadTest ==
    /\ thread.pc = "test"
    /\ thread' = [thread EXCEPT !.pc = IF thread.run_flag THEN "read"
                                       ELSE "release"]
    /\ UNCHANGED <<recorder, viewer, gen>>

\* WebcamVideoThread.run: one read; a frame read is stamped and emitted,
\* which queues it for the UI context
ThreadRead(ret) ==
    /\ thread.pc = "read"
    /\ ret => thread.nread < ViewerFrames
    /\ IF ret
       THEN /\ thread' = [thread EXCEPT !.nread = @ + 1,
                                        !.imgtime = Some(thread.nread + 1),
                                        !.pc = "test"]
            /\ viewer' = [viewer EXCEPT !.queue = Append(@, thread.nread + 1)]
       ELSE /\ thread' = [thread EXCEPT !.pc = "test"]
            /\ UNCHANGED viewer
    /\ UNCHANGED <<recorder, gen>>

\* WebcamVideoThread.run: the device is released and run() returns
ThreadRelease ==
    /\ thread.pc = "release"
    /\ thread' = [thread EXCEPT !.cap = Some("released"), !.pc = "finished"]
    /\ UNCHANGED <<recorder, viewer, gen>>

NextViewer ==
    \/ \E key \in ViewerKeys : ViewerKey(key)
    \/ ViewerFrameEvent
    \/ CloseBegin
    \/ CloseStop
    \/ CloseEnd
    \/ AppQuit
    \/ ThreadOpen
    \/ ThreadTest
    \/ \E ret \in BOOLEAN : ThreadRead(ret)
    \/ ThreadRelease

SpecViewer == InitViewer /\ [][NextViewer]_vars

\* the worker thread is scheduled and each device read returns; the UI
\* context goes on inside closeEvent, and wait() returns once run() has
FairViewer ==
    /\ WF_vars(ThreadOpen)
    /\ WF_vars(ThreadTest)
    /\ WF_vars(\E ret \in BOOLEAN : ThreadRead(ret))
    /\ WF_vars(ThreadRelease)
    /\ WF_vars(CloseStop)
    /\ WF_vars(CloseEnd)

SpecViewerFair == SpecViewer /\ FairViewer

\* a harness assigns the filename property, as a user of the widget may
FilenameValues == {None, Some("test"), Some("other")}

SetterCall(value) ==
    /\ viewer.ui = "running"
    /\ viewer.nset < ViewerSets
    /\ viewer' = [SetFilename(viewer, value) EXCEPT !.nset = @ + 1,
                                                    !.last = "set"]
    /\ UNCHANGED <<recorder, thread, gen>>

NextFilename ==
    \/ \E key \in ViewerKeys : ViewerKey(key)
    \/ ViewerFrameEvent
    \/ CloseBegin
    \/ CloseStop
    \/ CloseEnd
    \/ AppQuit
    \/ ThreadOpen
    \/ ThreadTest
    \/ \E ret \in BOOLEAN : ThreadRead(ret)
    \/ ThreadRelease
    \/ \E value \in FilenameValues : SetterCall(value)

SpecFilename == InitViewer /\ [][NextFilename]_vars

\* ------------------------------------------------- the task list generator

\* A Python str is a sequence of one-character strings.
Quote == "\""
Comma == ","
Newline == "\n"

\* the least index of character c in s, 0 when s has none
FirstIndex(s, c) ==
    IF \E i \in DOMAIN s : s[i] = c
    THEN CHOOSE i \in DOMAIN s : s[i] = c /\ \A j \in 1..(i - 1) : s[j] # c
    ELSE 0

\* fh.readlines(): the lines of the text, each with its line terminator
RECURSIVE ReadLines(_)
ReadLines(t) ==
    IF t = <<>> THEN <<>>
    ELSE LET n == FirstIndex(t, Newline)
         IN IF n = 0 THEN <<t>>
            ELSE <<SubSeq(t, 1, n)>> \o ReadLines(SubSeq(t, n + 1, Len(t)))

\* str.split(c)
RECURSIVE Split(_, _)
Split(s, c) ==
    LET n == FirstIndex(s, c)
    IN IF n = 0 THEN <<s>>
       ELSE <<SubSeq(s, 1, n - 1)>> \o Split(SubSeq(s, n + 1, Len(s)), c)

\* str.replace('"', '')
Unquote(s) == SelectSeq(s, LAMBDA ch : ch # Quote)

\* Python slicing l[a:b] and l[a:], for a, b >= 0
Slice(l, a, b) ==
    IF a >= Len(l) \/ a >= b THEN <<>>
    ELSE SubSeq(l, a + 1, IF b < Len(l) THEN b ELSE Len(l))
SliceFrom(l, a) == Slice(l, a, Len(l))

\* one element of the "tasks" comprehension
TaskEntry(td) ==
    LET f == Split(td, Comma)
        i == Slice(f, 2, 4)
    IN [name |-> Unquote(f[2]),
        instr |-> [k \in DOMAIN i |-> Unquote(i[k])]]

\* the "tasks" comprehension over task_data[2:]: _td.split(',')[1] raises
\* IndexError on a line without a comma; lines with an empty name are left out
BuildTasks(task_data) ==
    LET data == SliceFrom(task_data, 2)
    IN IF \E k \in DOMAIN data : Len(Split(data[k], Comma)) < 2
       THEN [exc |-> "IndexError", tasks |-> None]
       ELSE LET kept == SelectSeq(data, LAMBDA td :
                                    Len(Unquote(Split(td, Comma)[2])) # 0)
            IN [exc |-> "",
                tasks |-> Some([k \in DOMAIN kept |-> TaskEntry(kept[k])])]

\* the contents of tasks.csv: fields, rows, and the texts made of them
Field(name) == <<Quote>> \o name \o <<Quote>>
FieldEmpty == Field(<<>>)
FieldTask == Field(<<"T">>)
FieldStep == Field(<<"S">>)
FieldTodo == Field(<<"D">>)
FieldExtra == Field(<<"X">>)

RECURSIVE Join(_, _)
Join(fields, c) ==
    IF Len(fields) = 0 THEN <<>>
    ELSE IF Len(fields) = 1 THEN fields[1]
    ELSE fields[1] \o <<c>> \o Join(Tail(fields), c)

GenRowFields ==
    { <<FieldEmpty>>,
      <<FieldEmpty, FieldEmpty>>,
      <<FieldEmpty, FieldTask>>,
      <<FieldEmpty, FieldTask, FieldStep>>,
      <<FieldEmpty, FieldEmpty, FieldStep, FieldTodo>>,
      <<FieldEmpty, FieldTask, FieldStep, FieldTodo>>,
      <<FieldEmpty, FieldTask, FieldStep, FieldTodo, FieldExtra>> }

GenHeader == <<"h", Newline, "h", Newline>>

\* the text of a file with the given rows; the last line may or may not end
\* with a line terminator
RECURSIVE GenText(_, _)
GenText(rows, terminated) ==
    IF Len(rows) = 0 THEN <<>>
    ELSE IF Len(rows) = 1
    THEN Join(rows[1], Comma) \o (IF terminated THEN <<Newline>> ELSE <<>>)
    ELSE Join(rows[1], Comma) \o <<Newline>> \o GenText(Tail(rows), terminated)

GenFiles ==
    { GenHeader \o GenText(rows, terminated) :
        rows \in UNION { [1..n -> GenRowFields] : n \in 0..GenRows },
        terminated \in BOOLEAN }

\* the generator before it runs on a tasks.csv with the given text
NewGen(text) ==
    [ pc |-> "read", text |-> text, task_data |-> <<>>, tasks |-> None,
      out |-> None, exc |-> "" ]

InitGen ==
    /\ RecorderOff
    /\ viewer = NoViewer
    /\ thread = NoThread
    /\ gen \in { NewGen(text) : text \in GenFiles }

\* task_data = fh.readlines()
GenRead ==
    /\ gen.pc = "read"
    /\ gen' = [gen EXCEPT !.task_data = ReadLines(gen.text), !.pc = "build"]
    /\ UNCHANGED <<recorder, viewer, thread>>

\* expt_params = {...}; an exception ends the script
GenBuild ==
    /\ gen.pc = "build"
    /\ LET b == BuildTasks(gen.task_data)
       IN gen' = [gen EXCEPT !.tasks = b.tasks, !.exc = b.exc,
                             !.pc = IF b.exc = "" THEN "dump" ELSE "failed"]
    /\ UNCHANGED <<recorder, viewer, thread>>

\* json.dump(expt_params, fh): the file holds the document
GenDump ==
    /\ gen.pc = "dump"
    /\ gen' = [gen EXCEPT !.out = Some([N |-> 1,
                                        nontaskprefix |-> "unlabelled",
                                        taskprefix |-> "task",
                                        tasks |-> Val(gen.tasks)]),
                          !.pc = "done"]
    /\ UNCHANGED <<recorder, viewer, thread>>

NextGen ==
    \/ GenRead
    \/ GenBuild
    \/ GenDump

SpecGen == InitGen /\ [][NextGen]_vars

\* ------------------------------------------------------------ properties

OpenVids == {h \in DOMAIN vids : vids[h].open}
OpenVidts == {h \in DOMAIN vidts : vidts[h].open}
Enter == KeyPress(KeyEnter, NoModifier)
CtrlR == KeyPress(KeyR, ControlModifier)
IsKey(e, key, modifiers) ==
    e.kind = "key" /\ e.key = key /\ e.modifiers = modifiers

\* C1: at most one video/timestamp file pair is open at any time: at most
\* one video writer is opened and not released, and at most one timestamp
\* file is opened and not closed.
C1_AtMostOnePairOpen ==
    Cardinality(OpenVids) <= 1 /\ Cardinality(OpenVidts) <= 1

\* C2: whenever the state is WaitingToRecordTask, an Enter press without
\* modifier raises nothing, sets the start time, clears the stop time, opens
\* a task segment listed under the name of the task at the current index,
\* sets the recording flag and moves to RecordingTask.
C2_EnterStartsTask ==
    [][(state = WaitingToRecordTask /\ Enter) =>
         /\ raised' = ""
         /\ state' = RecordingTask
         /\ expt'.recording
         /\ expt'.currtaskstrt = Some(clock)
         /\ expt'.currtaskstpt = None
         /\ expt'.currtaskindx = expt.currtaskindx
         /\ IndexOk(Val(expt.tasks), Val(expt.currtaskindx))
         /\ Val(expt'.datafiles) =
              Append(Val(expt.datafiles),
                     <<Val(expt'.basefname),
                       Index(Val(expt.tasks), Val(expt.currtaskindx)).name>>)
         /\ Val(expt'.basefname).prefix = params.taskprefix
         /\ Val(expt'.vidwriter) = Len(vids') /\ Len(vids') = Len(vids) + 1
         /\ vids'[Len(vids')].open
         /\ vids'[Len(vids')].base = Val(expt'.basefname)
    ]_vars

\* C3: in RecordingTask with current index i, an Enter press without
\* modifier stamps the stop time (it reads the time of the press when no task
\* remains; when a task remains, preparing it clears start and stop time
\* again), closes the open task segment, clears the recording flag, sets the
\* index to i+1 and opens a new non-task segment, listed with an empty task
\* name; the state becomes WaitingToRecordTask when i+1 is less than the
\* length of the runtime task list and WaitingForAllDone otherwise.
C3_EnterStopsTask ==
    [][(state = RecordingTask /\ Enter) =>
         LET i == Val(expt.currtaskindx)
             more == i + 1 < Len(Val(expt.tasks))
             h == Val(expt.vidwriter)
             f == Val(expt.vidtfhndl)
         IN /\ raised' = ""
            /\ vids[h].open /\ vids[h].base.prefix = params.taskprefix
            /\ ~vids'[h].open /\ ~vidts'[f].open
            /\ ~expt'.recording
            /\ expt'.currtaskindx = Some(i + 1)
            /\ expt'.currtaskstpt = IF more THEN None ELSE Some(clock)
            /\ Len(vids') = Len(vids) + 1 /\ Len(vidts') = Len(vidts) + 1
            /\ expt'.vidwriter = Some(Len(vids'))
            /\ expt'.vidtfhndl = Some(Len(vidts'))
            /\ vids'[Len(vids')].open /\ vidts'[Len(vidts')].open
            /\ vids'[Len(vids')].base = Val(expt'.basefname)
            /\ Val(expt'.basefname).prefix = params.nontaskprefix
            /\ Val(expt'.datafiles) =
                 Append(Val(expt.datafiles), <<Val(expt'.basefname), "">>)
            /\ state' = IF more THEN WaitingToRecordTask ELSE WaitingForAllDone
    ]_vars

\* C3 witness: Enter met RecordingTask at the last task of a two-task list
\* and left WaitingForAllDone with the stop time set.
C3_Witness ==
    /\ IsKey(ev, KeyEnter, NoModifier) /\ ev.from = RecordingTask
    /\ ev.indx = Some(1) /\ Len(Val(expt.tasks)) = 2
    /\ state = WaitingForAllDone /\ expt.currtaskstpt # None

\* C4: in AllDone no segment is open: the active base file name is absent
\* and no video writer or timestamp file is open, so that no later frame is
\* written.
C4_AllDoneNothingOpen ==
    state = AllDone =>
        expt.basefname = None /\ OpenVids = {} /\ OpenVidts = {}

\* C5: an Enter press in AllDone raises nothing and leaves the state and the
\* whole session unchanged.
C5_AllDoneEnterNoEffect ==
    [][(state = AllDone /\ Enter) =>
         raised' = "" /\ state' = AllDone /\ expt' = expt]_vars

\* C6: a Ctrl+R press in RecordingTask, WaitingForAllDone or AllDone leaves
\* the state, the task index, the start and stop times and the recording
\* flag unchanged.
C6_CtrlROnlyWhenWaiting ==
    [][(state \in {RecordingTask, WaitingForAllDone, AllDone} /\ CtrlR) =>
         /\ state' = state
         /\ expt'.currtaskindx = expt.currtaskindx
         /\ expt'.currtaskstrt = expt.currtaskstrt
         /\ expt'.currtaskstpt = expt.currtaskstpt
         /\ expt'.recording = expt.recording]_vars

\* C7: a Ctrl+R press in WaitingToRecordTask keeps the state, sets the index
\* to i-1 when it is i >= 1, and for every index leaves the writer and file
\* objects, the session's references to them, the active base file name and
\* the data-file list unchanged.
C7_RedoKeepsSegments ==
    [][(state = WaitingToRecordTask /\ CtrlR) =>
         /\ raised' = ""
         /\ state' = WaitingToRecordTask
         /\ Val(expt.currtaskindx) >= 1 =>
              expt'.currtaskindx = Some(Val(expt.currtaskindx) - 1)
         /\ vids' = vids /\ vidts' = vidts
         /\ expt'.vidwriter = expt.vidwriter
         /\ expt'.vidtfhndl = expt.vidtfhndl
         /\ expt'.basefname = expt.basefname
         /\ expt'.datafiles = expt.datafiles]_vars

\* C7 witness: Ctrl+R met WaitingToRecordTask at index 1 and left index 0.
C7_Witness ==
    /\ IsKey(ev, KeyR, ControlModifier) /\ ev.from = WaitingToRecordTask
    /\ ev.indx = Some(1)
    /\ state = WaitingToRecordTask /\ expt.currtaskindx = Some(0)
    /\ OpenVids # {}

\* C8: in WaitingToStart an Enter press and a Ctrl+R press change nothing:
\* the state, the session, the writer and file objects and the manifest stay
\* as they are and nothing is raised.
C8_KeysIgnoredBeforeStart ==
    [][(state = WaitingToStart /\ (Enter \/ CtrlR)) =>
         /\ raised' = ""
         /\ state' = WaitingToStart
         /\ expt' = expt
         /\ vids' = vids /\ vidts' = vidts /\ details' = details]_vars

\* C8 witness: Ctrl+R was pressed in WaitingToStart.
C8_Witness ==
    /\ IsKey(ev, KeyR, ControlModifier) /\ ev.from = WaitingToStart
    /\ state = WaitingToStart /\ expt = NewExpt /\ raised = ""

\* C9: a confirmed Start raises nothing, leaves the recording flag clear and
\* the data-file list with exactly one entry, of empty task name, for the one
\* open segment, sets the index to 0 and ends in WaitingToRecordTask when the
\* runtime task list is non-empty and in WaitingForAllDone when it is empty;
\* a declined Start changes neither state nor session.
C9_StartOpensSession ==
    [][/\ StartClick(TRUE) =>
            /\ raised' = ""
            /\ ~expt'.recording
            /\ Len(Val(expt'.datafiles)) = 1
            /\ Val(expt'.datafiles)[1] = <<Val(expt'.basefname), "">>
            /\ Cardinality({h \in DOMAIN vids' : vids'[h].open}) = 1
            /\ expt'.currtaskindx = Some(0)
            /\ state' = IF Val(expt'.tasks) # <<>> THEN WaitingToRecordTask
                        ELSE WaitingForAllDone
       /\ StartClick(FALSE) => state' = state /\ expt' = expt]_vars

\* C10: once built, the runtime task list is the configured list repeated N
\* times in order (length N times the configured length, element k the
\* configured task k modulo the configured length), and no later event
\* changes it.
C10_RuntimeTaskList ==
    /\ [](expt.tasks # None =>
            LET t == Val(expt.tasks)
                c == params.tasks
            IN /\ Len(t) = params.N * Len(c)
               /\ \A k \in 0..(Len(t) - 1) : t[k + 1] = c[(k % Len(c)) + 1])
    /\ [][expt.tasks # None => expt'.tasks = expt.tasks]_vars

\* C10 witness: two tasks repeated twice, with the session already recording
\* the second task.
C10_Witness ==
    /\ params.N = 2 /\ Len(params.tasks) = 2
    /\ expt.tasks # None /\ Len(Val(expt.tasks)) = 4
    /\ state = RecordingTask /\ expt.currtaskindx = Some(1)

\* C11: the data-file list holds exactly one entry per segment opened so far,
\* in the order the segments were opened: entry k carries the base name of
\* the k-th segment, and the name of the runtime task whose index is in that
\* base name, or "" for a non-task segment.
C11_OneEntryPerSegment ==
    expt.datafiles # None =>
        /\ Len(Val(expt.datafiles)) = Len(vids)
        /\ \A k \in 1..Len(vids) :
              LET d == Val(expt.datafiles)[k]
              IN /\ d[1] = vids[k].base
                 /\ d[2] = IF d[1].indx = None THEN ""
                           ELSE Index(Val(expt.tasks), Val(d[1].indx)).name

\* C12: in a started session, after every completed Start, Enter or Ctrl+R
\* event, the subject, task list and data-file list of experiment_details.json
\* equal those of the session in memory.
C12_ManifestFollowsSession ==
    (raised = "" /\ state # WaitingToStart) =>
        details = Some([subject |-> expt.subject, tasks |-> expt.tasks,
                        datafiles |-> expt.datafiles])

\* C12 witness: a third segment has been opened by an Enter press and the
\* manifest lists all three.
C12_Witness ==
    /\ raised = "" /\ ev.kind = "key" /\ ev.key = KeyEnter
    /\ details # None /\ Val(details).datafiles # None
    /\ Len(Val(Val(details).datafiles)) = 3
    /\ Len(vids) = 3

\* C14: every timestamp record of a segment is the capture time of the frame
\* written with it (a frame is identified by the time the worker read it).
C14_StampIsCaptureTime ==
    \A h \in DOMAIN vids :
        \A k \in DOMAIN vidts[h].stamps \cap DOMAIN vids[h].frames :
            vidts[h].stamps[k] = vids[h].frames[k]

\* C19: every segment holds as many timestamp records as frames, and a frame
\* event that finds a segment open writes one frame and one record to the
\* pair the session refers to, which is still open, and to no other.
C19_FrameAndStampTogether ==
    /\ [](\A h \in DOMAIN vids :
            Len(vids[h].frames) = Len(vidts[h].stamps))
    /\ [][FrameEvent =>
            IF expt.basefname = None
            THEN vids' = vids /\ vidts' = vidts
            ELSE /\ expt.vidwriter # None /\ expt.vidtfhndl # None
                 /\ vids[Val(expt.vidwriter)].open
                 /\ vidts[Val(expt.vidtfhndl)].open
                 /\ vids' = [vids EXCEPT ![Val(expt.vidwriter)].frames =
                                            Append(@, Head(queue))]
                 /\ \E t \in 1..MaxFrames :
                       vidts' = [vidts EXCEPT ![Val(expt.vidtfhndl)].stamps =
                                                 Append(@, t)]
                 /\ raised' = ""]_vars

\* C19 witness: a closed segment and the open one after it both hold a frame
\* with its timestamp record.
C19_Witness ==
    /\ Len(vids) >= 2
    /\ ~vids[1].open /\ Len(vids[1].frames) = 1 /\ Len(vidts[1].stamps) = 1
    /\ vids[2].open /\ Len(vids[2].frames) = 1 /\ Len(vidts[2].stamps) = 1

\* C20: a rendered frame is in full colour exactly when the open segment is a
\* task segment, and in grayscale when it is a non-task segment or none is
\* open.
C20_ColourTellsTaskSegment ==
    [][(FrameEvent /\ pixmaps' # pixmaps) =>
          pixmaps'[Len(pixmaps')].rgb =
              (/\ expt.basefname # None
               /\ Val(expt.basefname).prefix = params.taskprefix)]_vars

\* the frames the UI context has handled so far (frames are numbered as read)
Delivered == nread - Len(queue)

\* C13: the display counter is the parity of the number of frames delivered,
\* the rendered frames are exactly the even-numbered ones, so any 10
\* consecutive delivered frames hold exactly 5 rendered ones, whatever the
\* state, the recording flag and the open segment; and a frame delivered
\* while a segment is open is written to it.
C13_EverySecondFrameRendered ==
    /\ [](/\ imgdispcount = Delivered % 2
          /\ Len(pixmaps) = Delivered \div 2
          /\ \A k \in DOMAIN pixmaps : pixmaps[k].frame = 2 * k
          /\ \A i \in 0..Delivered :
                i + 10 <= Delivered =>
                  Cardinality({k \in DOMAIN pixmaps :
                                 pixmaps[k].frame \in (i + 1)..(i + 10)}) = 5)
    /\ [][(FrameEvent /\ expt.basefname # None) =>
            vids'[Val(expt.vidwriter)].frames =
                Append(vids[Val(expt.vidwriter)].frames, Head(queue))]_vars

\* C13 witness: 10 frames delivered and 5 rendered, some in colour and some in
\* grayscale, some written to a segment and some delivered with none open.
C13_Witness ==
    /\ Delivered = 10 /\ Len(pixmaps) = 5
    /\ \E j, k \in DOMAIN pixmaps : pixmaps[j].rgb /\ ~pixmaps[k].rgb
    /\ \E h \in DOMAIN vids : Len(vids[h].frames) \in 1..8

\* C15: once thread.stop() has returned (closeEvent is over), no frame
\* callback runs any more, queued frames included.
C15_NoCallbackAfterStop ==
    [][~(viewer.ui = "closed" /\ ViewerFrameEvent)]_vars

\* the video writers and timestamp files of the viewer that are open
ViewerOpenVideos == {h \in DOMAIN viewer.videos : viewer.videos[h].open}
ViewerOpenFiles == {h \in DOMAIN viewer.fhandles : viewer.fhandles[h].open}

TableRows(text) ==
    LET lines == ReadLines(text)
        data == SliceFrom(lines, 2)
    IN [k \in DOMAIN data |->
          Split(SelectSeq(data[k], LAMBDA ch : ch # Newline), Comma)]

\* C17: for a table whose rows all have 4 fields or more, the output holds,
\* in input order, one entry [name, [step, todo]] per row with a non-empty
\* quote-stripped field 1, made of the row's fields 1, 2 and 3 without their
\* quote characters and nothing else.
C17_GeneratorOutput ==
    LET rows == TableRows(gen.text)
        named == SelectSeq(rows, LAMBDA f : Len(Unquote(f[2])) # 0)
    IN (/\ gen.pc = "done"
        /\ \A k \in DOMAIN rows : Len(rows[k]) >= 4)
       => Val(gen.out).tasks =
            [k \in DOMAIN named |->
               [name |-> Unquote(named[k][2]),
                instr |-> <<Unquote(named[k][3]), Unquote(named[k][4])>>]]

\* C18: a table with a row of fewer than 4 fields makes the run fail without
\* writing expt_params.json, and no written configuration holds a task whose
\* instruction list has fewer than two elements.
C18_ShortRowIsFatal ==
    /\ (/\ gen.pc \in {"dump", "done", "failed"}
        /\ \E k \in DOMAIN TableRows(gen.text) :
              Len(TableRows(gen.text)[k]) < 4)
       => (gen.pc = "failed" /\ gen.out = None)
    /\ gen.out # None =>
         \A k \in DOMAIN Val(gen.out).tasks :
             Len(Val(gen.out).tasks[k].instr) = 2

\* C21: closing the window clears the filename and finalizes the open pair
\* before the worker's run flag is lowered, and a frame handled once the
\* close has begun changes no video or timestamp file.
C21_CloseFinalizesBeforeStop ==
    /\ []((viewer.ui # "running" \/ ~thread.run_flag) =>
            /\ viewer.filename = None
            /\ ViewerOpenVideos = {} /\ ViewerOpenFiles = {})
    /\ [][CloseStop => (thread.run_flag /\ thread.pc # "finished")]_vars
    /\ [][(ViewerFrameEvent /\ viewer.ui # "running") =>
            (viewer'.videos = viewer.videos
             /\ viewer'.fhandles = viewer.fhandles)]_vars

\* C21 witness: a pair that held a frame was finalized by the close, and a
\* frame that was still queued has been handled after the close.
C21_Witness ==
    /\ viewer.ui = "closed" /\ viewer.last = "frame"
    /\ Len(viewer.videos) = 1 /\ ~viewer.videos[1].open
    /\ Len(viewer.videos[1].frames) = 1
    /\ viewer.lbl_img = Some(2)

\* C22: once stop has been called, the worker's loop exits, the device is
\* released and run() returns; a worker that has seen the lowered flag
\* emits no frame; and stop returns only when run() has returned.
C22_StopTerminatesWorker ==
    /\ (viewer.ui = "stopping") ~>
          (thread.pc = "finished" /\ thread.cap = Some("released")
           /\ viewer.ui = "closed")
    /\ [][thread.pc \in {"release", "finished"} =>
            (thread'.nread = thread.nread
             /\ Len(viewer'.queue) <= Len(viewer.queue))]_vars
    /\ [][(viewer.ui = "stopping" /\ viewer'.ui = "closed") =>
            (thread.pc = "finished" /\ thread.cap = Some("released"))]_vars

\* C22 witness: stop was called while a read was under way; the read gave a
\* frame, and the worker has ended with the device released.
C22_Witness ==
    /\ viewer.ui = "closed"
    /\ thread.pc = "finished" /\ thread.cap = Some("released")
    /\ thread.nread = 1 /\ viewer.queue = <<1>>

\* C23: after every completed handler the recording flag is true exactly
\* when the state is RecordingTask.
C23_RecordingIffRecordingTask ==
    raised = "" => (expt.recording <=> state = RecordingTask)

\* C24: after every completed handler of a started session the current task
\* index lies between 0 and the length of the runtime task list.
C24_IndexWithinList ==
    (raised = "" /\ state # WaitingToStart) =>
        /\ expt.currtaskindx # None /\ expt.tasks # None
        /\ Val(expt.currtaskindx) >= 0
        /\ Val(expt.currtaskindx) <= Len(Val(expt.tasks))

\* C24 witness: Ctrl+R was pressed at index 0, and the index is still 0.
C24_Witness ==
    /\ raised = "" /\ IsKey(ev, KeyR, ControlModifier)
    /\ ev.indx = Some(0) /\ expt.currtaskindx = Some(0)
    /\ Len(Val(expt.tasks)) >= 2

\* C25: in WaitingToRecordTask and RecordingTask the current task index
\* refers to a task of the runtime task list.
C25_IndexRefersToTask ==
    (raised = "" /\ state \in {WaitingToRecordTask, RecordingTask}) =>
        /\ Val(expt.currtaskindx) >= 0
        /\ Val(expt.currtaskindx) < Len(Val(expt.tasks))

\* C26: in a session with n >= 1 runtime tasks driven by Enter alone, the
\* state is AllDone exactly after press 2n+1, and the data-file list then has
\* 2n+1 entries: the odd ones are non-task entries, and entry 2j is the task
\* entry of runtime task j-1, for j = 1..n.
C26_EnterOnlySession ==
    (raised = "" /\ state # WaitingToStart /\ Len(Val(expt.tasks)) >= 1) =>
        LET n == Len(Val(expt.tasks))
            d == Val(expt.datafiles)
        IN /\ presses <= 2 * n + 1
           /\ state = AllDone <=> presses = 2 * n + 1
           /\ state = AllDone =>
                /\ Len(d) = 2 * n + 1
                /\ \A k \in 1..Len(d) :
                      IF k % 2 = 1
                      THEN d[k][1].prefix = params.nontaskprefix /\ d[k][2] = ""
                      ELSE /\ d[k][1].prefix = params.taskprefix
                           /\ d[k][1].indx = Some((k \div 2) - 1)
                           /\ d[k][2] = Val(expt.tasks)[k \div 2].name

\* C26 witness: four runtime tasks (two configured, repeated twice) and
\* AllDone reached with the ninth press.
C26_Witness ==
    /\ raised = "" /\ state = AllDone /\ presses = 9
    /\ Len(Val(expt.tasks)) = 4 /\ Len(Val(expt.datafiles)) = 9

\* C27: whenever a segment has been named, the worker has opened the
\* device and the segment is complete: its writer exists under that base
\* name and the manifest lists it.
C27_CameraOpenWhenSegmentOpens ==
    expt.basefname # None =>
        /\ cap # None
        /\ expt.vidwriter # None
        /\ vids[Val(expt.vidwriter)].base = Val(expt.basefname)
        /\ details # None
        /\ Val(details).datafiles = expt.datafiles

====
